---- MODULE Spec2Model ----
(***************************************************************************)
(* The data-synchronisation core of the dashboard: the background poller   *)
(* (updateData), the render/input loop of main (reactToInput, the draw     *)
(* functions, notifyIfNeeded) and the state they share without any lock.   *)
(*                                                                         *)
(* The repository holds three successive versions of the program:          *)
(*   version 1  src/main.go                    (watermarks local to main)  *)
(*   version 2  src/unnamed/part_000 l.1-445   (State.NotificationSentAt)  *)
(*   version 3  src/unnamed/part_000 l.446-908 (TabIDs, addTab, GetItems)  *)
(* The variable version is chosen in Init and never changes; every action  *)
(* follows the code of that version.                                       *)
(*                                                                         *)
(* Time: time.Time values are natural numbers, 0 is the zero time.  The    *)
(* code compares a time only with times of the same tab (LastViewedAt and  *)
(* the watermark with ModifiedAt), so the clock is kept per tab: clock[t]  *)
(* starts at 1 and advances with every commit of tab t (two commits of one *)
(* tab are at least a 10 s sleep apart); a time.Now() of the render loop   *)
(* that is stored for tab t reads clock[t].                                *)
(***************************************************************************)
EXTENDS Integers, Sequences, FiniteSets, TLC

VARIABLES
    version,             \* which main program runs
    clock,               \* per tab, the time that time.Now() returns
    Items,               \* TabData[tabID].Items / Data[title].Items
    ModifiedAt,          \* TabData[tabID].ModifiedAt / Data[title].ModifiedAt
    GetItems,            \* TabData[tabID].GetItems is non-nil (version 3)
    SelectedTab,         \* State.SelectedTab: an index (versions 1, 2), a tab id (version 3)
    SelectedItem,        \* TabDisplays[tabID].SelectedItem / Tabs[i].SelectedItem
    LastViewedAt,        \* TabDisplays[tabID].LastViewedAt / Tabs[i].LastViewedAt
    NotificationSentAt,  \* State.NotificationSentAt / main's lastModifiedAt
    ShouldClose,         \* State.ShouldClose
    pollPhase,           \* where the goroutine updateData stands
    pollTab,             \* 0-based index of the tab updateData is processing
    pollItems,           \* updateData's local items (the adapter's result)
    pollNow,             \* the time.Now() evaluated for the commit under way
    pollFirst,           \* the field the commit under way stored first
    renderPc,            \* where main's render/input loop stands
    terminated,          \* the process has exited (os.Exit, panic, main returned)
    keyboard,            \* environment: the keys the user presses in this run
    commitCap,           \* environment: how often a tab's source changes in this run
    sources,             \* environment: per tab, the lists its source holds in this run
    wrote,               \* history: per tab and field, how many stores it received
    notifs,              \* history: per tab, how many times Notify was invoked
    exit,                \* history: how the process exited
    lastKey,             \* history: the key the input step of this frame read
    lastOpen,            \* history: what the input step of this frame opened
    shown,               \* history: the unread markers the last frame displayed
    said,                \* history: the tabs the notifications of the last frame named
    scen                 \* history: progress of the run through the fetch scenario

vars == <<version, clock, Items, ModifiedAt, GetItems, SelectedTab, SelectedItem,
          LastViewedAt, NotificationSentAt, ShouldClose, pollPhase, pollTab,
          pollItems, pollNow, pollFirst, renderPc, terminated,
          keyboard, commitCap, sources, wrote, notifs, exit, lastKey, lastOpen, shown, said, scen>>

pollerVars == <<pollPhase, pollTab, pollItems, pollNow, pollFirst>>
envVars == <<version, keyboard, commitCap, sources>>
storeVars == <<Items, ModifiedAt, GetItems, wrote>>
navVars == <<SelectedTab, SelectedItem, LastViewedAt, ShouldClose>>
frameVars == <<lastKey, lastOpen>>
displayVars == <<shown, said>>
exitVars == <<terminated, exit>>

----------------------------------------------------------------------------
(* Bounds of the model *)

\* The poller commits a tab at most MaxCommits times in a run.
MaxCommits == 2

----------------------------------------------------------------------------
(* Values *)

Versions == {1, 2, 3}

ZeroTime == 0

\* The time at which the process starts.
StartTime == 1

IsZero(t) == t = ZeroTime

\* Mutant of Later: the clock was set back before the commit.
LaterSetBack(t) == t - 1

\* What time.Now() returns at a commit, given the tab's latest time so far: a
\* later time (a 10 s sleep lies between two commits of a tab).
Later(t) == t + 1

Before(t, u) == t < u

Max(a, b) == IF a >= b THEN a ELSE b

Min(a, b) == IF a <= b THEN a ELSE b

ItemA == [Value |-> "A", URL |-> "https://example.com/a", Application |-> ""]
ItemB == [Value |-> "B", URL |-> "https://example.com/b", Application |-> "Slack"]
ItemC == [Value |-> "C", URL |-> "https://example.com/c", Application |-> ""]

\* An item that has neither a URL nor an application.
ItemN == [Value |-> "N", URL |-> "", Application |-> ""]

\* The tab identifiers, in display order.
TabIDs(v) ==
    IF v = 3 THEN <<"PRs", "Issues", "Alerts", "Workflows">>
    ELSE <<"PRs", "Issues", "Alerts">>

TabSet(v) == {TabIDs(v)[i] : i \in 1..Len(TabIDs(v))}

\* slices.Index(ids, id): the 0-based position of id, -1 when absent.
SlicesIndex(ids, id) ==
    IF \E i \in 1..Len(ids) : ids[i] = id
    THEN (CHOOSE i \in 1..Len(ids) : ids[i] = id /\ \A j \in 1..(i-1) : ids[j] # id) - 1
    ELSE -1

\* Mutant of SlicesEqual: the items are compared by their Value only.
SlicesEqualByValue(a, b) ==
    /\ Len(a) = Len(b)
    /\ \A i \in 1..Len(a) : a[i].Value = b[i].Value

\* slices.Equal(a, b): same length and equal element by element, in order.
SlicesEqual(a, b) ==
    /\ Len(a) = Len(b)
    /\ \A i \in 1..Len(a) : a[i] = b[i]

\* Go's s[i] with a 0-based index: in range or a run-time panic.
InRange(s, i) == 0 <= i /\ i <= Len(s) - 1

\* ItemA with one field changed: the value, the URL, the application.
ItemAv == [ItemA EXCEPT !.Value = "A2"]
ItemAu == [ItemA EXCEPT !.URL = "https://example.com/a2"]
ItemAp == [ItemA EXCEPT !.Application = "Slack"]

\* The lists the sources hold in an ordinary run: Alerts grows, Issues is
\* empty, the other tabs hold one item.
DefaultSources(v) ==
    [t \in TabSet(v) |->
        IF t = "Alerts"
        THEN {<<ItemA>>, <<ItemA, ItemB>>, <<ItemC, ItemA, ItemB>>}
        ELSE IF t = "Issues" THEN {<<>>}
        ELSE {<<ItemN>>}]

\* The lists of a run that probes the comparison: Alerts holds lists that are
\* permutations of each other, that differ in one field of one item, and that
\* differ in length.
CompareSources(v) ==
    [t \in TabSet(v) |->
        IF t = "Alerts"
        THEN {<<ItemA, ItemB>>, <<ItemB, ItemA>>, <<ItemA>>,
              <<ItemAv>>, <<ItemAu>>, <<ItemAp>>}
        ELSE IF t = "Issues" THEN {<<>>}
        ELSE {<<ItemN>>}]

\* What a tab's source adapter can return on success.
Results(tabID) == sources[tabID]

\* The tabs whose source adapter can return an error.
MayFail == {"Alerts"}

\* The process ends: os.Exit, a panic, a fatal error, or main returns.
Exit(cause) == terminated' = TRUE /\ exit' = cause

\* shown before the first frame, in a run that records the display or not.
NotShown(recorded) == [recorded |-> recorded, title |-> FALSE, marked |-> {}]

\* said before the first frame, in a run that records the notifications or not.
NotSaid(recorded) == [recorded |-> recorded, titles |-> {}]

\* lastKey outside a frame: no key has been read.
NoFrame == "NoFrame"

\* lastKey in a run whose keys are not recorded.
Unrecorded == "Unrecorded"

\* lastKey after a step of the render loop.
Record(last, key) == IF last = Unrecorded THEN Unrecorded ELSE key

\* What rl.GetKeyPressed() can return in a frame (None: no key pressed).
Keys == {"Left", "Right", "Up", "Down", "Enter", "One", "Two", "Three", "Four",
         "Q", "None"}

\* The fetch scenario on the tab ScenTab: three successive fetches return
\* [A,B], [A,B], [C,A,B] and the policy is evaluated after each.  scen counts
\* the events of the scenario the run has gone through (fetch 1, evaluation,
\* fetch 2, evaluation, fetch 3, evaluation); ScenOff: the run is not, or no
\* longer, an instance of the scenario.
ScenTab == "Alerts"

ScenOff == 0 - 1

ScenStart == ScenOff + 1

ScenLists == <<<<ItemA, ItemB>>, <<ItemA, ItemB>>, <<ItemC, ItemA, ItemB>>>>

\* A fetch of tabID completed (compared and, if changed, committed) with items.
ScenFetch(s, tabID, items) ==
    IF s = ScenOff \/ tabID # ScenTab THEN s
    ELSE IF s % 2 = 0 /\ s < 2 * Len(ScenLists) /\ items = ScenLists[(s \div 2) + 1]
    THEN s + 1
    ELSE ScenOff

\* The policy was evaluated for every tab.
ScenPolicy(s) == IF s # ScenOff /\ s % 2 = 1 THEN s + 1 ELSE s

----------------------------------------------------------------------------
(* Construction: NewState / newState + addTab, and the go statement of main *)

InitState ==
    /\ version \in Versions
    /\ clock = [t \in TabSet(version) |-> StartTime]
    /\ Items = [t \in TabSet(version) |-> <<>>]
    /\ ModifiedAt = [t \in TabSet(version) |-> ZeroTime]
    /\ GetItems = [t \in TabSet(version) |-> TRUE]
    /\ SelectedTab = IF version = 3 THEN TabIDs(version)[1] ELSE 0
    /\ SelectedItem = [t \in TabSet(version) |-> 0]
    /\ LastViewedAt = [t \in TabSet(version) |-> ZeroTime]
    /\ NotificationSentAt = [t \in TabSet(version) |-> ZeroTime]
    /\ ShouldClose = FALSE
    /\ pollPhase = "fetch"
    /\ pollTab = 0
    /\ pollItems = <<>>
    /\ pollNow = ZeroTime
    /\ pollFirst = "none"
    /\ renderPc = IF version = 1 THEN "setup" ELSE "input"
    /\ terminated = FALSE
    /\ exit = "none"
    /\ wrote = [t \in TabSet(version) |-> [Items |-> 0, ModifiedAt |-> 0]]
    /\ notifs = [t \in TabSet(version) |-> 0]
    /\ lastOpen = "none"

\* Any key can be pressed; the run is not followed through the scenario and
\* the keys are not recorded.
Init ==
    /\ InitState
    /\ keyboard = Keys
    /\ commitCap = MaxCommits
    /\ sources = DefaultSources(version)
    /\ scen = ScenOff
    /\ lastKey = Unrecorded
    /\ shown = NotShown(FALSE)
    /\ said = NotSaid(FALSE)

\* The user only watches and quits; the run is followed through the scenario.
InitScenario ==
    /\ InitState
    /\ keyboard = {"None", "Q"}
    /\ commitCap = MaxCommits
    /\ sources = DefaultSources(version)
    /\ scen = ScenStart
    /\ lastKey = Unrecorded
    /\ shown = NotShown(FALSE)
    /\ said = NotSaid(FALSE)

\* Any key can be pressed and the key of every frame is recorded; every tab's
\* source changes once less often.
InitInput ==
    /\ InitState
    /\ keyboard = Keys
    /\ commitCap = MaxCommits - 1
    /\ sources = DefaultSources(version)
    /\ scen = ScenOff
    /\ lastKey = NoFrame
    /\ shown = NotShown(FALSE)
    /\ said = NotSaid(FALSE)

\* The user moves between the tabs and quits; what every frame displays is
\* recorded.
InitDisplay ==
    /\ InitState
    /\ keyboard = {"None", "Right", "One", "Q"}
    /\ commitCap = MaxCommits
    /\ sources = DefaultSources(version)
    /\ scen = ScenOff
    /\ lastKey = Unrecorded
    /\ shown = NotShown(TRUE)
    /\ said = NotSaid(FALSE)

\* The user only watches and quits; the source of Alerts holds the lists that
\* probe the comparison.
InitCompare ==
    /\ InitState
    /\ keyboard = {"None", "Q"}
    /\ commitCap = MaxCommits
    /\ sources = CompareSources(version)
    /\ scen = ScenOff
    /\ lastKey = Unrecorded
    /\ shown = NotShown(FALSE)
    /\ said = NotSaid(FALSE)

\* The user only watches and quits; what every notification names is recorded.
InitNotify ==
    /\ InitState
    /\ keyboard = {"None", "Q"}
    /\ commitCap = MaxCommits
    /\ sources = DefaultSources(version)
    /\ scen = ScenOff
    /\ lastKey = Unrecorded
    /\ shown = NotShown(FALSE)
    /\ said = NotSaid(TRUE)

\* The user watches, activates the item under the cursor and quits.
InitFair ==
    /\ InitState
    /\ keyboard = {"None", "Enter", "Q"}
    /\ commitCap = MaxCommits
    /\ sources = DefaultSources(version)
    /\ scen = ScenOff
    /\ lastKey = Unrecorded
    /\ shown = NotShown(FALSE)
    /\ said = NotSaid(FALSE)

----------------------------------------------------------------------------
(* The poller: goroutine updateData *)

\* The tab updateData is processing.
PollTabID == TabIDs(version)[pollTab + 1]

\* The change test of updateData: version 1 compares the lists only, versions
\* 2 and 3 also commit while ModifiedAt is still zero.
ShouldCommit(v, modifiedAt, stored, items) ==
    IF v = 1 THEN ~SlicesEqual(items, stored)
    ELSE IsZero(modifiedAt) \/ ~SlicesEqual(items, stored)

\* Mutant of PollAdvance: the cycle passes over the tab that follows.
PollAdvanceSkips ==
    /\ IF pollTab + 2 < Len(TabIDs(version))
       THEN pollTab' = pollTab + 2 /\ pollPhase' = "fetch"
       ELSE pollTab' = pollTab /\ pollPhase' = "sleep"
    /\ pollNow' = ZeroTime
    /\ pollFirst' = "none"

\* After one tab: the next tab of the cycle, or the sleep that ends the cycle.
PollAdvance ==
    /\ IF pollTab + 1 < Len(TabIDs(version))
       THEN pollTab' = pollTab + 1 /\ pollPhase' = "fetch"
       ELSE pollTab' = pollTab /\ pollPhase' = "sleep"
    /\ pollNow' = ZeroTime
    /\ pollFirst' = "none"

\* After the sleep: versions 1 and 2 loop (for { ... }); version 3 has no loop
\* around the cycle and updateData returns.
AfterSleep(v) == IF v = 3 THEN "returned" ELSE "fetch"

\* One iteration up to the assignment: items, err := GetItems() with err == nil
\* (a nil GetItems panics), then the if.  The fetch touches nothing shared and
\* the test reads only what the poller itself writes, so both are one step.
\* When the test holds the assignment
\*   state.TabData[tabID] = TabData{Items: items, ModifiedAt: time.Now()}
\* starts: it is an unsynchronised copy of a struct into the shared map, so the
\* fields reach memory one after the other, in either order; this step stores
\* the first one.  When the test fails nothing is written.
FetchCompare ==
    /\ ~terminated
    /\ pollPhase = "fetch"
    /\ IF ~GetItems[PollTabID]
       THEN /\ Exit("nil call")
            /\ UNCHANGED <<clock, Items, ModifiedAt, wrote, pollerVars, scen>>
       ELSE /\ UNCHANGED exitVars
            /\ \E items \in Results(PollTabID) :
                 IF ShouldCommit(version, ModifiedAt[PollTabID], Items[PollTabID], items)
                 THEN /\ wrote[PollTabID].ModifiedAt < commitCap
                      /\ clock' = [clock EXCEPT ![PollTabID] = Later(@)]
                      /\ pollNow' = Later(clock[PollTabID])
                      /\ pollItems' = items
                      /\ pollPhase' = "store"
                      /\ pollTab' = pollTab
                      /\ \E f \in {"Items", "ModifiedAt"} :
                           /\ pollFirst' = f
                           /\ IF f = "Items"
                              THEN /\ Items' = [Items EXCEPT ![PollTabID] = items]
                                   /\ UNCHANGED ModifiedAt
                              ELSE /\ ModifiedAt' = [ModifiedAt EXCEPT ![PollTabID] =
                                                        Later(clock[PollTabID])]
                                   /\ UNCHANGED Items
                           /\ wrote' = [wrote EXCEPT ![PollTabID][f] = @ + 1]
                      /\ UNCHANGED scen
                 ELSE /\ PollAdvance
                      /\ pollItems' = items
                      /\ scen' = ScenFetch(scen, PollTabID, items)
                      /\ UNCHANGED <<clock, Items, ModifiedAt, wrote>>
    /\ UNCHANGED <<envVars, GetItems, navVars, frameVars, displayVars, NotificationSentAt,
                   renderPc, notifs>>

\* Mutant of FetchFail: the error is reported and the poller goes on with the
\* next tab.
FetchFailGoesOn ==
    /\ ~terminated
    /\ pollPhase = "fetch"
    /\ GetItems[PollTabID]
    /\ PollTabID \in MayFail
    /\ exit' = "fetch failed"
    /\ PollAdvance
    /\ UNCHANGED <<envVars, clock, storeVars, navVars, frameVars, displayVars, NotificationSentAt,
                   pollItems, renderPc, terminated, notifs, scen>>

\* The adapter returns an error: updateData prints it and calls os.Exit(1).
FetchFail ==
    /\ ~terminated
    /\ pollPhase = "fetch"
    /\ GetItems[PollTabID]
    /\ PollTabID \in MayFail
    /\ Exit("fetch failed")
    /\ UNCHANGED <<envVars, clock, storeVars, navVars, frameVars, displayVars, NotificationSentAt,
                   pollerVars, renderPc, notifs, scen>>

\* Mutant of Store: completing a commit also brings the tab's cursor back into
\* the new list.
StoreClampsCursor ==
    /\ ~terminated
    /\ pollPhase = "store"
    /\ Items' = [Items EXCEPT ![PollTabID] = pollItems]
    /\ ModifiedAt' = [ModifiedAt EXCEPT ![PollTabID] = pollNow]
    /\ GetItems' = IF version = 3 THEN [GetItems EXCEPT ![PollTabID] = FALSE]
                   ELSE GetItems
    /\ wrote' = [wrote EXCEPT ![PollTabID] =
                    [Items |-> wrote[PollTabID][pollFirst],
                     ModifiedAt |-> wrote[PollTabID][pollFirst]]]
    /\ SelectedItem' = [SelectedItem EXCEPT ![PollTabID] =
                           Max(0, Min(Len(pollItems) - 1, @))]
    /\ PollAdvance
    /\ scen' = ScenFetch(scen, PollTabID, pollItems)
    /\ UNCHANGED pollItems
    /\ UNCHANGED <<envVars, clock, SelectedTab, LastViewedAt, ShouldClose, frameVars,
                   displayVars, NotificationSentAt, renderPc, exitVars, notifs>>

\* The rest of the assignment: the other field, and in version 3 GetItems,
\* which the composite literal leaves nil.
Store ==
    /\ ~terminated
    /\ pollPhase = "store"
    /\ Items' = [Items EXCEPT ![PollTabID] = pollItems]
    /\ ModifiedAt' = [ModifiedAt EXCEPT ![PollTabID] = pollNow]
    /\ GetItems' = IF version = 3 THEN [GetItems EXCEPT ![PollTabID] = FALSE]
                   ELSE GetItems
    /\ wrote' = [wrote EXCEPT ![PollTabID] =
                    [Items |-> wrote[PollTabID][pollFirst],
                     ModifiedAt |-> wrote[PollTabID][pollFirst]]]
    /\ PollAdvance
    /\ scen' = ScenFetch(scen, PollTabID, pollItems)
    /\ UNCHANGED pollItems
    /\ UNCHANGED <<envVars, clock, navVars, frameVars, displayVars, NotificationSentAt,
                   renderPc, exitVars, notifs>>

\* time.Sleep(10 * time.Second) and what follows it.
Sleep ==
    /\ ~terminated
    /\ pollPhase = "sleep"
    /\ pollPhase' = AfterSleep(version)
    /\ pollTab' = 0
    /\ UNCHANGED <<envVars, clock, storeVars, navVars, frameVars, displayVars, NotificationSentAt,
                   pollItems, pollNow, pollFirst, renderPc,
                   exitVars, notifs, scen>>

----------------------------------------------------------------------------
(* The render/input loop of main *)

\* Mutant of GotInput: KeyFour has a case in every version.
GotInputAnyKey(v, key) == key # "None"

\* The keys the switch of reactToInput has a case for (KeyFour: version 3 only).
GotInput(v, key) ==
    /\ key # "None"
    /\ key = "Four" => v = 3

\* The title of the selected tab: Tabs[SelectedTab].Title in versions 1 and 2,
\* SelectedTab itself in version 3.
SelectedTabID(v, sel) == IF v = 3 THEN sel ELSE TabIDs(v)[sel + 1]

\* Whether Tabs[SelectedTab] can be indexed (versions 1, 2); version 3 looks
\* SelectedTab up in maps, which never panics.
SelectedTabOK(v, sel) == v = 3 \/ InRange(TabIDs(v), sel)

\* The 0-based position of the selected tab.
TabIdx(v, sel) == IF v = 3 THEN SlicesIndex(TabIDs(v), sel) ELSE sel

\* Mutant of LeftIdx: the move to the left without the clamp at the first tab.
LeftIdxUnclamped(tabIdx) == tabIdx - 1

\* newTabIdx := max(0, tabIdx-1)
LeftIdx(tabIdx) == Max(0, tabIdx - 1)

\* Mutant of RightIdx: the move to the right wraps around to the first tab.
RightIdxWraps(nTabs, tabIdx) == (tabIdx + 1) % nTabs

\* newTabIdx := min(len(state.TabIDs)-1, tabIdx+1)
RightIdx(nTabs, tabIdx) == Min(nTabs - 1, tabIdx + 1)

\* The number a digit key selects (0-based), -1 for the other keys.
JumpIdx(key) ==
    IF key = "One" THEN 0
    ELSE IF key = "Two" THEN 1
    ELSE IF key = "Three" THEN 2
    ELSE IF key = "Four" THEN 3
    ELSE -1

\* The 0-based position the key moves the selection to.
NewTabIdx(v, sel, key) ==
    IF key = "Left" THEN LeftIdx(TabIdx(v, sel))
    ELSE IF key = "Right" THEN RightIdx(Len(TabIDs(v)), TabIdx(v, sel))
    ELSE IF GotInput(v, key) /\ JumpIdx(key) >= 0 THEN JumpIdx(key)
    ELSE TabIdx(v, sel)

\* state.SelectedTab after the switch: the index, or state.TabIDs[index].
NewSelectedTab(v, sel, key) ==
    IF NewTabIdx(v, sel, key) = TabIdx(v, sel) THEN sel
    ELSE IF v = 3 THEN TabIDs(v)[NewTabIdx(v, sel, key) + 1]
    ELSE NewTabIdx(v, sel, key)

\* state.TabIDs[newTabIdx] panics when the index is out of range.
TabSwitchPanics(v, sel, key) ==
    /\ v = 3
    /\ NewTabIdx(v, sel, key) # TabIdx(v, sel)
    /\ ~InRange(TabIDs(v), NewTabIdx(v, sel, key))

\* SelectedItem after KeyUp / KeyDown; nItems is len(Items) of the selected tab.
UpItem(cur) == Max(0, cur - 1)

DownItem(nItems, cur) == Min(nItems - 1, cur + 1)

\* Mutant of NewSelectedItem: a key that switches the tab puts the cursor of the
\* tab that is left back on its first item.
NewSelectedItemResets(key, nItems, cur) ==
    IF key = "Up" THEN UpItem(cur)
    ELSE IF key = "Down" THEN DownItem(nItems, cur)
    ELSE IF key \in {"Left", "Right", "One", "Two", "Three", "Four"} THEN 0
    ELSE cur

NewSelectedItem(key, nItems, cur) ==
    IF key = "Up" THEN UpItem(cur)
    ELSE IF key = "Down" THEN DownItem(nItems, cur)
    ELSE cur

\* openApplication: nothing for an empty list; otherwise Items[SelectedItem],
\* which panics when the cursor is outside the list.
OpenPanics(items, cur) == Len(items) # 0 /\ ~InRange(items, cur)

\* Mutant of OpenEffect: the URL is opened whether it is empty or not.
OpenEffectAnyURL(items, cur) ==
    IF Len(items) = 0 THEN "none"
    ELSE IF items[cur + 1].Application # "" THEN "app"
    ELSE "url"

OpenEffect(items, cur) ==
    IF Len(items) = 0 THEN "none"
    ELSE IF items[cur + 1].Application # "" THEN "app"
    ELSE IF items[cur + 1].URL # "" THEN "url"
    ELSE "none"

\* The tab whose LastViewedAt is set when gotInput holds: the one SelectedTab
\* designates after the switch.
StampedTab(v, sel, newSel) == SelectedTabID(v, newSel)

\* Mutant of Setup: main waits until the poller has finished its first cycle.
SetupWaitsForPoller ==
    /\ ~terminated
    /\ renderPc = "setup"
    /\ pollPhase = "sleep"
    /\ NotificationSentAt' = [t \in TabSet(version) |-> clock[t]]
    /\ renderPc' = "input"
    /\ UNCHANGED <<envVars, clock, storeVars, navVars, frameVars, displayVars, pollerVars,
                   exitVars, notifs, scen>>

\* Version 1 only: main creates lastModifiedAt with time.Now() after the poller
\* goroutine has been started and the window has been opened.
Setup ==
    /\ ~terminated
    /\ renderPc = "setup"
    /\ NotificationSentAt' = [t \in TabSet(version) |-> clock[t]]
    /\ renderPc' = "input"
    /\ UNCHANGED <<envVars, clock, storeVars, navVars, frameVars, displayVars, pollerVars,
                   exitVars, notifs, scen>>

\* Mutant of LoopCondition: the loop goes on whatever ShouldClose is.
LoopConditionIgnoresClose(shouldClose) == TRUE

\* The condition of main's loop, !rl.WindowShouldClose() && !state.ShouldClose,
\* with a window that is never closed from outside.
LoopCondition(shouldClose) == ~shouldClose

\* Mutant of MainReturn: the close request is dropped and the loop goes on.
MainReturnResets ==
    /\ ~terminated
    /\ renderPc = "input"
    /\ ~LoopCondition(ShouldClose)
    /\ ShouldClose' = FALSE
    /\ UNCHANGED <<envVars, clock, storeVars, SelectedTab, SelectedItem, LastViewedAt,
                   frameVars, displayVars, NotificationSentAt, pollerVars, renderPc,
                   exitVars, notifs, scen>>

\* The loop condition !rl.WindowShouldClose() && !state.ShouldClose fails
\* because ShouldClose is set: main returns and the process ends, the poller
\* with it.  (A close request of the window itself is not modelled.)
MainReturn ==
    /\ ~terminated
    /\ renderPc = "input"
    /\ ~LoopCondition(ShouldClose)
    /\ Exit("main returned")
    /\ UNCHANGED <<envVars, clock, storeVars, navVars, frameVars, displayVars, NotificationSentAt,
                   pollerVars, renderPc, notifs, scen>>

\* reactToInput(&state) for the key rl.GetKeyPressed() returns.
ReactToInput ==
    /\ ~terminated
    /\ renderPc = "input"
    /\ LoopCondition(ShouldClose)
    /\ \E key \in keyboard :
        IF ~SelectedTabOK(version, SelectedTab)
           \/ TabSwitchPanics(version, SelectedTab, key)
           \/ (key = "Enter" /\ OpenPanics(Items[SelectedTabID(version, SelectedTab)],
                                           SelectedItem[SelectedTabID(version, SelectedTab)]))
        THEN /\ Exit("index out of range")
             /\ lastKey' = Record(lastKey, key)
             /\ lastOpen' = "none"
             /\ UNCHANGED <<navVars, renderPc>>
        ELSE LET old == SelectedTabID(version, SelectedTab)
                 nItems == Len(Items[old])
                 newSel == NewSelectedTab(version, SelectedTab, key)
             IN  /\ lastKey' = Record(lastKey, key)
                 /\ SelectedTab' = newSel
                 /\ SelectedItem' = [SelectedItem EXCEPT ![old] =
                                        NewSelectedItem(key, nItems, @)]
                 /\ lastOpen' = IF key = "Enter"
                                THEN OpenEffect(Items[old], SelectedItem[old])
                                ELSE "none"
                 /\ ShouldClose' = (ShouldClose \/ key = "Q")
                 /\ LastViewedAt' =
                       IF GotInput(version, key) /\ SelectedTabOK(version, newSel)
                       THEN [LastViewedAt EXCEPT ![StampedTab(version, SelectedTab, newSel)] =
                                 clock[StampedTab(version, SelectedTab, newSel)]]
                       ELSE LastViewedAt
                 /\ renderPc' = "draw"
                 /\ UNCHANGED exitVars
    /\ UNCHANGED <<envVars, clock, storeVars, NotificationSentAt, pollerVars,
                   displayVars, notifs, scen>>

\* Mutant of Policy: a watermark before ModifiedAt is advanced without a call
\* of Notify.
PolicySilent(v, sentAt, modifiedAt) ==
    IF v # 1 /\ IsZero(sentAt)
    THEN [sentAt |-> modifiedAt, notify |-> FALSE]
    ELSE IF Before(sentAt, modifiedAt)
    THEN [sentAt |-> modifiedAt, notify |-> FALSE]
    ELSE [sentAt |-> sentAt, notify |-> FALSE]

\* Mutant of Policy: a watermark before ModifiedAt notifies and is not advanced.
PolicyNoAdvance(v, sentAt, modifiedAt) ==
    IF v # 1 /\ IsZero(sentAt)
    THEN [sentAt |-> modifiedAt, notify |-> FALSE]
    ELSE IF Before(sentAt, modifiedAt)
    THEN [sentAt |-> sentAt, notify |-> TRUE]
    ELSE [sentAt |-> sentAt, notify |-> FALSE]

\* One iteration of notifyIfNeeded's loop: the watermark after it and whether
\* Notify is called.  Version 1 has no case for a zero watermark.
Policy(v, sentAt, modifiedAt) ==
    IF v # 1 /\ IsZero(sentAt)
    THEN [sentAt |-> modifiedAt, notify |-> FALSE]
    ELSE IF Before(sentAt, modifiedAt)
    THEN [sentAt |-> modifiedAt, notify |-> TRUE]
    ELSE [sentAt |-> sentAt, notify |-> FALSE]

\* The tabs notifyIfNeeded has visited when it reaches tab t: version 3 ranges
\* over TabIDs in order, versions 1 and 2 range over a map (any order).
VisitedBefore(v, t) ==
    IF v = 3
    THEN {{u \in TabSet(v) : SlicesIndex(TabIDs(v), u) < SlicesIndex(TabIDs(v), t)}}
    ELSE SUBSET (TabSet(v) \ {t})

\* Mutant of Unread: a tab viewed exactly when it was modified counts as unread.
UnreadOrSame(lastViewedAt, modifiedAt) == ~Before(modifiedAt, lastViewedAt)

\* The test of drawWindowTitle and drawHeaders:
\* LastViewedAt.Before(ModifiedAt).
Unread(lastViewedAt, modifiedAt) == Before(lastViewedAt, modifiedAt)

\* What the frame displays: drawHeaders puts the notice "*" before the title
\* of every tab that passes the test, drawWindowTitle puts the marker into the
\* window title as soon as one tab passes it.
Display(v, lastViewedAt, modifiedAt) ==
    [recorded |-> TRUE,
     title |-> \E t \in TabSet(v) : Unread(lastViewedAt[t], modifiedAt[t]),
     marked |-> {t \in TabSet(v) : Unread(lastViewedAt[t], modifiedAt[t])}]

\* The tab title the call of Notify for tab t passes: Notify(tab) with the key
\* of the map in version 2, Notify(state.TabDisplays[tabID].Title) in version
\* 3; Notify() of version 1 has no parameter and its message names no tab.
NotifyArg(v, t) == IF v = 1 THEN "" ELSE t

\* What the notifications of a frame named, when Notify was called for tabs.
Said(v, tabs) == [recorded |-> TRUE, titles |-> {NotifyArg(v, t) : t \in tabs}]

\* The rest of the frame after reactToInput.  drawWindowTitle, drawHeaders,
\* drawRuler, drawBody and drawHelp read the shared state and change none of
\* it.  Then notifyIfNeeded(&state): every tab's watermark is compared with
\* its ModifiedAt.  A Notify that fails ends the process at that tab: the tabs
\* not yet visited keep their watermark.
DrawAndNotify ==
    /\ ~terminated
    /\ renderPc = "draw"
    /\ renderPc' = "input"
    /\ scen' = ScenPolicy(scen)
    /\ LET p == [t \in TabSet(version) |->
                    Policy(version, NotificationSentAt[t], ModifiedAt[t])]
       IN  \/ /\ NotificationSentAt' = [t \in TabSet(version) |-> p[t].sentAt]
              /\ notifs' = [t \in TabSet(version) |->
                               IF p[t].notify THEN notifs[t] + 1 ELSE notifs[t]]
              /\ UNCHANGED exitVars
           \/ \E f \in {t \in TabSet(version) : p[t].notify} :
              \E seen \in VisitedBefore(version, f) :
                /\ NotificationSentAt' = [t \in TabSet(version) |->
                       IF t \in seen \cup {f} THEN p[t].sentAt
                       ELSE NotificationSentAt[t]]
                /\ notifs' = [t \in TabSet(version) |->
                       IF t \in seen \cup {f} /\ p[t].notify THEN notifs[t] + 1
                       ELSE notifs[t]]
                /\ Exit("notify failed")
    /\ lastKey' = Record(lastKey, NoFrame)
    /\ lastOpen' = "none"
    /\ shown' = IF shown.recorded THEN Display(version, LastViewedAt, ModifiedAt)
                ELSE shown
    /\ said' = IF said.recorded
               THEN Said(version, {t \in TabSet(version) : notifs'[t] # notifs[t]})
               ELSE said
    /\ UNCHANGED <<envVars, clock, storeVars, navVars, pollerVars>>

\* The assignment into the map TabData / Data runs while the render loop
\* reads the same map: besides a torn read, the Go runtime can detect the
\* race and end the process ("concurrent map read and map write").
MapRaceFatal ==
    /\ ~terminated
    /\ pollPhase = "store"
    /\ renderPc \in {"input", "draw"}
    /\ Exit("map race")
    /\ UNCHANGED <<envVars, clock, storeVars, navVars, frameVars, displayVars, NotificationSentAt,
                   pollerVars, renderPc, notifs, scen>>

----------------------------------------------------------------------------

Next ==
    \/ FetchCompare
    \/ FetchFail
    \/ Store
    \/ Sleep
    \/ Setup
    \/ MainReturn
    \/ ReactToInput
    \/ DrawAndNotify
    \/ MapRaceFatal

Spec == Init /\ [][Next]_vars

ScenarioSpec == InitScenario /\ [][Next]_vars

InputSpec == InitInput /\ [][Next]_vars

DisplaySpec == InitDisplay /\ [][Next]_vars

CompareSpec == InitCompare /\ [][Next]_vars

NotifySpec == InitNotify /\ [][Next]_vars

\* The render loop is scheduled fairly: main's loop runs a frame 60 times a
\* second as long as its condition holds, so a step of the loop that stays
\* enabled is taken.  Nothing is assumed about the poller.
FairSpec ==
    /\ InitFair
    /\ [][Next]_vars
    /\ WF_vars(Setup)
    /\ WF_vars(ReactToInput)
    /\ WF_vars(DrawAndNotify)

----------------------------------------------------------------------------
(* Properties *)

\* The number of strict increases of ModifiedAt[t] so far: every store into
\* ModifiedAt[t] writes a later time than the one it replaces.
Commits(t) == wrote[t].ModifiedAt

\* The step in which a fetch of the poller returns a list (pollItems').
FetchDone ==
    /\ pollPhase = "fetch"
    /\ ~terminated /\ ~terminated'
    /\ <<pollPhase, pollTab>>' # <<pollPhase, pollTab>>

\* The step that completes a commit of the poller.
StoreDone == pollPhase = "store" /\ pollPhase' # "store"

\* The step in which the render loop draws the frame and evaluates the policy.
DrawStep == renderPc = "draw" /\ renderPc' = "input"

\* C1: a fetch changes the tab's ModifiedAt and replaces its list if and only
\* if the fetched list differs from the stored one or ModifiedAt is still
\* zero; an unchanged fetch after the first leaves both untouched.
C1_CommitIffChanged ==
    [][ /\ FetchDone =>
            LET t == PollTabID
                changed == pollItems' # Items[t] \/ IsZero(ModifiedAt[t])
            IN  /\ changed <=> pollPhase' = "store"
                /\ changed => Before(ModifiedAt[t], pollNow')
                /\ ~changed => Items'[t] = Items[t] /\ ModifiedAt'[t] = ModifiedAt[t]
        /\ StoreDone =>
            /\ Items'[PollTabID] = pollItems
            /\ ModifiedAt'[PollTabID] = pollNow
      ]_vars

\* C2: the first transition of a tab's ModifiedAt away from zero never makes
\* notifyIfNeeded notify: as long as ModifiedAt has changed at most once no
\* notification has been emitted for the tab, and the evaluation that sees the
\* first value sets the watermark to it.
C2_FirstPopulationSilent ==
    [][ \A t \in TabSet(version) :
          /\ Commits(t)' <= 1 => notifs'[t] = 0
          /\ (DrawStep /\ ~terminated' /\ Commits(t) = 1 /\ ~IsZero(ModifiedAt[t]))
                => NotificationSentAt'[t] = ModifiedAt[t]
      ]_vars

C4_SelectedItemValid ==
    \A t \in TabSet(version) :
        IF Len(Items[t]) = 0 THEN SelectedItem[t] = 0
        ELSE InRange(Items[t], SelectedItem[t])

\* C5: no frame of the render loop reads a tab whose Items and ModifiedAt come
\* from two different writes of the poller.
C5_SnapshotReadAsOneUnit ==
    [][ DrawStep => \A t \in TabSet(version) : wrote[t].Items = wrote[t].ModifiedAt
      ]_vars

\* C6: the poller repeats forever: while the process runs the poller is inside
\* its cycle (fetching, committing or sleeping), it never leaves it.
C6_PollerRepeatsForever ==
    ~terminated => pollPhase \in {"fetch", "store", "sleep"}

\* C7: SelectedTab always designates a tab of the tab-identifier sequence.
C7_SelectedTabValid ==
    IF version = 3 THEN SelectedTab \in TabSet(version)
    ELSE SelectedTab \in 0..(Len(TabIDs(version)) - 1)

\* C7 witness: the selection reached the last tab after tabs before it had
\* been visited, and quit was pressed there.
C7_Witness ==
    /\ TabIdx(version, SelectedTab) = Len(TabIDs(version)) - 1
    /\ ~IsZero(LastViewedAt[TabIDs(version)[1]])
    /\ ~IsZero(LastViewedAt[TabIDs(version)[2]])
    /\ ShouldClose

\* C8: a watermark is only ever written by an evaluation of the policy, with
\* the tab's ModifiedAt as read by it, and after every evaluation no watermark
\* exceeds its tab's ModifiedAt.
C8_WatermarkFollowsModifiedAt ==
    [][ /\ \A t \in TabSet(version) :
              NotificationSentAt'[t] # NotificationSentAt[t]
                  => DrawStep /\ NotificationSentAt'[t] = ModifiedAt[t]
        /\ (DrawStep /\ ~terminated')
              => \A t \in TabSet(version) : NotificationSentAt'[t] <= ModifiedAt'[t]
      ]_vars

\* No commit of the scenario's tab is under way.
ScenSettled == ~(pollPhase = "store" /\ PollTabID = ScenTab)

\* C9: in the scenario ([A,B], [A,B], [C,A,B] fetched for a tab that starts
\* empty, the policy evaluated after each fetch) the first fetch commits [A,B]
\* and the evaluation sets the watermark without a notification, the second
\* fetch commits nothing, the third commits [C,A,B] and exactly one
\* notification is emitted for the tab.
C9_Scenario ==
    /\ (scen \in {1, 2, 3, 4} /\ ScenSettled)
          => Items[ScenTab] = ScenLists[1] /\ Commits(ScenTab) = 1
    /\ (scen \in {2, 3, 4} /\ ScenSettled)
          => notifs[ScenTab] = 0 /\ NotificationSentAt[ScenTab] = ModifiedAt[ScenTab]
    /\ scen \in {5, 6}
          => Items[ScenTab] = ScenLists[3] /\ Commits(ScenTab) = 2
    /\ scen = 6
          => notifs[ScenTab] = 1 /\ NotificationSentAt[ScenTab] = ModifiedAt[ScenTab]

\* C10: when a frame is drawn the cursor of the selected tab is at most
\* len(Items)-1 (0 for an empty list), also after a commit shrank the list.
C10_CursorClampedAtRender ==
    [][ DrawStep =>
          LET t == SelectedTabID(version, SelectedTab)
          IN  SelectedItem[t] <= Max(0, Len(Items[t]) - 1)
      ]_vars

\* The step in which reactToInput reads the key lastKey' (recorded runs).
KeyStep == renderPc = "input" /\ lastKey = NoFrame /\ lastKey' \in Keys

\* A KeyStep that reactToInput completes.
InputStep == KeyStep /\ ~terminated'

\* C11: a jump to tab N with N beyond the number of tabs leaves SelectedTab and
\* every LastViewedAt unchanged; with N in range it selects the Nth tab.
C11_JumpToTab ==
    [][ (KeyStep /\ JumpIdx(lastKey') >= 0) =>
          /\ ~terminated'
          /\ IF JumpIdx(lastKey') < Len(TabIDs(version))
             THEN TabIdx(version, SelectedTab') = JumpIdx(lastKey')
             ELSE SelectedTab' = SelectedTab /\ LastViewedAt' = LastViewedAt
      ]_vars

\* C11 witness: key 4 was pressed with three tabs while the last tab was
\* selected, after some tab had been viewed.
C11_Witness ==
    /\ lastKey = "Four"
    /\ Len(TabIDs(version)) = 3
    /\ TabIdx(version, SelectedTab) = 2
    /\ renderPc = "draw"
    /\ \E t \in TabSet(version) : ~IsZero(LastViewedAt[t])

\* The selected tab has an item under the cursor and that item has neither a
\* URL nor an application.
OnBareItem ==
    LET t == SelectedTabID(version, SelectedTab)
    IN  /\ InRange(Items[t], SelectedItem[t])
        /\ Items[t][SelectedItem[t] + 1].URL = ""
        /\ Items[t][SelectedItem[t] + 1].Application = ""

\* C12 as stated: activate on an item with neither a URL nor an application
\* opens nothing and leaves the whole dashboard state unchanged.
C12_ActivateBareItemChangesNothing ==
    [][ (KeyStep /\ lastKey' = "Enter" /\ OnBareItem) =>
          /\ ~terminated'
          /\ lastOpen' = "none"
          /\ UNCHANGED <<SelectedTab, SelectedItem, LastViewedAt, ShouldClose,
                         Items, ModifiedAt, NotificationSentAt>>
      ]_vars

\* C12 amended: activate on such an item opens nothing and changes nothing but
\* the LastViewedAt of the selected tab, which is set to the current time.
C12_ActivateBareItemOnlyStamps ==
    [][ (KeyStep /\ lastKey' = "Enter" /\ OnBareItem) =>
          /\ ~terminated'
          /\ lastOpen' = "none"
          /\ LastViewedAt' =
                [LastViewedAt EXCEPT ![SelectedTabID(version, SelectedTab)] =
                    clock[SelectedTabID(version, SelectedTab)]]
          /\ UNCHANGED <<SelectedTab, SelectedItem, ShouldClose,
                         Items, ModifiedAt, NotificationSentAt>>
      ]_vars

\* C12 witness: activate was pressed on the item of tab PRs, which has neither
\* a URL nor an application, after the tab's list had been committed.
C12_Witness ==
    /\ lastKey = "Enter"
    /\ renderPc = "draw"
    /\ OnBareItem
    /\ lastOpen = "none"
    /\ Before(ZeroTime, ModifiedAt[SelectedTabID(version, SelectedTab)])
    /\ LastViewedAt[SelectedTabID(version, SelectedTab)]
          = ModifiedAt[SelectedTabID(version, SelectedTab)]

\* C13: when an adapter fails the process terminates in that step without
\* storing anything, and a terminated process takes no further step: neither
\* the failed tab nor a later tab is fetched or modified, and what earlier
\* commits stored stays as it is.
C13_FailFast ==
    [][ /\ exit' = "fetch failed" =>
              /\ terminated'
              /\ UNCHANGED <<Items, ModifiedAt, pollPhase, pollTab>>
        /\ ~terminated
      ]_vars

\* C13 witness: the adapter of Alerts failed in a later cycle, after an earlier
\* cycle had committed Alerts and the tabs before it.
C13_Witness ==
    /\ exit = "fetch failed"
    /\ \A t \in TabSet(version) \ {"Issues"} : Commits(t) = 1
    /\ Len(Items[ScenTab]) > 0

\* C14: move-tab-left and move-tab-right select the adjacent tab of the
\* sequence; at the first tab left, and at the last tab right, change nothing.
C14_TabMoveClamped ==
    [][ /\ (KeyStep /\ lastKey' = "Left") =>
              /\ ~terminated'
              /\ TabIdx(version, SelectedTab') =
                    IF TabIdx(version, SelectedTab) = 0 THEN 0
                    ELSE TabIdx(version, SelectedTab) - 1
        /\ (KeyStep /\ lastKey' = "Right") =>
              /\ ~terminated'
              /\ TabIdx(version, SelectedTab') =
                    IF TabIdx(version, SelectedTab) = Len(TabIDs(version)) - 1
                    THEN TabIdx(version, SelectedTab)
                    ELSE TabIdx(version, SelectedTab) + 1
      ]_vars

\* C14 witness: move-tab-right was pressed and the last tab is selected, the
\* tab before it having been viewed.
C14_Witness ==
    /\ lastKey = "Right"
    /\ renderPc = "draw"
    /\ TabIdx(version, SelectedTab) = Len(TabIDs(version)) - 1
    /\ ~IsZero(LastViewedAt[TabIDs(version)[Len(TabIDs(version)) - 1]])
    /\ ~IsZero(LastViewedAt[TabIDs(version)[Len(TabIDs(version))]])

\* x clamped to [0, n-1], and 0 when n = 0.
ClampedTo(x, n) ==
    IF n = 0 \/ x < 0 THEN 0
    ELSE IF x > n - 1 THEN n - 1
    ELSE x

\* C15: move-item-up and move-item-down change the selected tab's SelectedItem
\* by -1 and +1, clamped to [0, len(Items)-1] for the tab's current list; with
\* an empty list the cursor stays 0.
C15_ItemMoveClamped ==
    [][ LET t == SelectedTabID(version, SelectedTab)
        IN  /\ (KeyStep /\ lastKey' = "Up") =>
                  SelectedItem'[t] = ClampedTo(SelectedItem[t] - 1, Len(Items[t]))
            /\ (KeyStep /\ lastKey' = "Down") =>
                  SelectedItem'[t] = ClampedTo(SelectedItem[t] + 1, Len(Items[t]))
      ]_vars

\* C16 as stated: quit sets ShouldClose, and once ShouldClose is set the render
\* loop performs no input transition, no draw and no policy evaluation.
C16_QuitStopsAtOnce ==
    [][ /\ (KeyStep /\ lastKey' = "Q") => ShouldClose'
        /\ ShouldClose => ~KeyStep /\ ~DrawStep
      ]_vars

\* C16 amended: quit sets ShouldClose; the frame that read the key is completed
\* (its draw and its policy evaluation), and after that frame the render loop
\* reads no key, draws nothing and evaluates no policy.
C16_QuitStopsAfterFrame ==
    [][ /\ (KeyStep /\ lastKey' = "Q") => ShouldClose' /\ ~terminated'
        /\ (ShouldClose /\ renderPc = "input") =>
              /\ renderPc' = "input"
              /\ lastKey' = lastKey
              /\ UNCHANGED <<SelectedTab, SelectedItem, LastViewedAt,
                             NotificationSentAt, notifs>>
        /\ (ShouldClose /\ renderPc = "draw") => ~KeyStep
      ]_vars

\* C16 witness: quit was pressed after a tab had been viewed, the frame was
\* completed and main returned.
C16_Witness ==
    /\ exit = "main returned"
    /\ ShouldClose
    /\ \E t \in TabSet(version) : Commits(t) = 1 /\ LastViewedAt[t] = ModifiedAt[t]

\* C17: a frame marks a tab unread, and marks the window title when some tab
\* is marked, if and only if the tab's LastViewedAt is strictly before its
\* ModifiedAt; reactToInput changes no watermark and the rest of the frame
\* (drawing, policy evaluation) changes no LastViewedAt.
C17_UnreadIndependentOfWatermark ==
    [][ /\ DrawStep =>
              /\ shown'.marked = {t \in TabSet(version) : LastViewedAt[t] < ModifiedAt[t]}
              /\ shown'.title <=> shown'.marked # {}
              /\ UNCHANGED LastViewedAt
        /\ (renderPc = "input" /\ renderPc' = "draw") => UNCHANGED NotificationSentAt
      ]_vars

\* C17 witness: the last frame marked one tab unread while another tab, also
\* committed, was not marked, and the policy had caught up with both.
C17_Witness ==
    /\ shown.title
    /\ \E t, u \in TabSet(version) :
          /\ t \in shown.marked /\ u \notin shown.marked
          /\ Commits(t) = 1 /\ Commits(u) = 1
          /\ NotificationSentAt[t] = ModifiedAt[t]
          /\ NotificationSentAt[u] = ModifiedAt[u]

\* The keys that are input events: every key with a case in the switch; a
\* digit beyond the number of tabs is none.
Recognized(v, key) == key # "None" /\ JumpIdx(key) < Len(TabIDs(v))

\* C18: every recognized input event sets the LastViewedAt of the tab that is
\* selected after the transition to the current time and changes no other
\* LastViewedAt; without a key no LastViewedAt changes.
C18_StampsTabEntered ==
    [][ KeyStep =>
          IF Recognized(version, lastKey')
          THEN /\ SelectedTabOK(version, SelectedTab')
               /\ LastViewedAt' =
                     [LastViewedAt EXCEPT ![SelectedTabID(version, SelectedTab')] =
                         clock[SelectedTabID(version, SelectedTab')]]
          ELSE LastViewedAt' = LastViewedAt
      ]_vars

\* C19: activate never indexes outside the selected tab's current list: it
\* does not end the process, and with no item under the cursor (empty list, or
\* cursor outside the list) it opens nothing.
C19_ActivateStaysInRange ==
    [][ (KeyStep /\ lastKey' = "Enter") =>
          LET t == SelectedTabID(version, SelectedTab)
          IN  /\ ~terminated'
              /\ ~InRange(Items[t], SelectedItem[t]) => lastOpen' = "none"
      ]_vars

\* C20: the dashboard state starts with the first tab selected, every cursor
\* 0, every LastViewedAt zero, every list empty with ModifiedAt zero, every
\* watermark zero and ShouldClose false; and the watermarks are still zero
\* when start-up has created them and the render loop begins.
C20_InitialState ==
    /\ TabIdx(version, SelectedTab) = 0
    /\ ~ShouldClose
    /\ \A t \in TabSet(version) :
          /\ SelectedItem[t] = 0
          /\ IsZero(LastViewedAt[t])
          /\ Items[t] = <<>>
          /\ IsZero(ModifiedAt[t])
          /\ IsZero(NotificationSentAt[t])
    /\ [][ (renderPc = "setup" /\ renderPc' = "input")
              => \A t \in TabSet(version) : IsZero(NotificationSentAt'[t])
         ]_vars

\* A step of the goroutine updateData: it moves on in its code, or it ends
\* the process from there.
PollerStep ==
    \/ pollerVars' # pollerVars
    \/ exit = "none" /\ exit' \in {"fetch failed", "nil call"}

\* A step of main's render/input loop, its set-up and its return included: it
\* moves on in its code, or it ends the process from there.
RenderStep ==
    \/ renderPc' # renderPc
    \/ exit = "none" /\ exit' \in {"index out of range", "notify failed", "main returned"}

\* C21: the snapshot store has a single writer: a step of the poller leaves
\* SelectedTab, every SelectedItem, every LastViewedAt, every watermark and
\* ShouldClose unchanged, and a step of the render/input loop leaves every
\* tab's Items and ModifiedAt unchanged.
C21_SingleWriter ==
    [][ /\ PollerStep =>
              UNCHANGED <<SelectedTab, SelectedItem, LastViewedAt,
                          NotificationSentAt, ShouldClose>>
        /\ RenderStep => UNCHANGED <<Items, ModifiedAt>>
      ]_vars

\* C21 witness: both activities have written: the poller committed a list the
\* cursor no longer fits, and the render loop moved the selection, stamped the
\* tab and advanced its watermark.
C21_Witness ==
    /\ \E t \in TabSet(version) :
          /\ Commits(t) = MaxCommits
          /\ ~InRange(Items[t], SelectedItem[t])
          /\ LastViewedAt[t] # ZeroTime
          /\ NotificationSentAt[t] = ModifiedAt[t]
    /\ TabIdx(version, SelectedTab) # 0

\* C22: the render/input loop never waits on the poller: in every reachable
\* state in which the process runs and ShouldClose is false, a step of the
\* render/input loop is enabled, wherever the poller stands.
C22_RenderNeverWaits ==
    (~terminated /\ ~ShouldClose) => ENABLED (Setup \/ ReactToInput \/ DrawAndNotify)

\* C22 witness: the poller is in the middle of a commit of a tab it has
\* committed before, the render loop has drawn frames meanwhile and can go on.
C22_Witness ==
    /\ ~terminated /\ ~ShouldClose
    /\ pollPhase = "store"
    /\ Commits(PollTabID) + wrote[PollTabID].Items >= 3
    /\ NotificationSentAt[PollTabID] # ZeroTime
    /\ ENABLED (ReactToInput \/ DrawAndNotify)

\* The poller is done with the tab it was processing and goes on in tab order:
\* to the next tab's adapter, or after the last tab to the sleep.
NextInOrder ==
    IF pollTab + 1 < Len(TabIDs(version))
    THEN pollPhase' = "fetch" /\ pollTab' = pollTab + 1
    ELSE pollPhase' = "sleep"

\* C23: within a cycle the poller takes the tabs in the order of the tab
\* identifiers, starting with the first, and invokes each tab's adapter once:
\* after a fetch it either goes on in order or commits that same tab, and a
\* commit is completed (both fields stored) before it goes on in order; only
\* the sleep at the end of the cycle leads back to the first tab.
C23_TabsInOrderOncePerCycle ==
    [][ (PollerStep /\ ~terminated') =>
          /\ pollPhase = "fetch" =>
                \/ NextInOrder
                \/ pollPhase' = "store" /\ pollTab' = pollTab
          /\ pollPhase = "store" =>
                /\ NextInOrder
                /\ Items'[PollTabID] = pollItems
                /\ ModifiedAt'[PollTabID] = pollNow
          /\ pollPhase = "sleep" =>
                /\ pollTab = Len(TabIDs(version)) - 1
                /\ pollTab' = 0
                /\ pollPhase' \in {"fetch", "returned"}
          /\ pollPhase # "returned"
      ]_vars

\* C23 witness: the poller is in its second cycle and has reached the last of
\* the three tabs again, after the first cycle committed the first and the
\* last tab.
C23_Witness ==
    /\ pollPhase = "fetch"
    /\ pollTab = 2
    /\ Commits("PRs") = 1
    /\ Commits("Alerts") = 1
    /\ ~terminated

\* Two lists differ field for field: in length, or at some position in the
\* value, the URL or the application.
Differ(a, b) ==
    \/ Len(a) # Len(b)
    \/ \E i \in 1..Min(Len(a), Len(b)) :
          \/ a[i].Value # b[i].Value
          \/ a[i].URL # b[i].URL
          \/ a[i].Application # b[i].Application

\* b holds the items of a in another order.
Permuted(a, b) ==
    /\ a # b
    /\ Len(a) = Len(b)
    /\ \E f \in [1..Len(a) -> 1..Len(a)] :
          /\ \A i, j \in 1..Len(a) : f[i] = f[j] => i = j
          /\ \A i \in 1..Len(a) : b[i] = a[f[i]]

\* C24: the change test compares the fetched list with the stored one in
\* order and field for field: a fetched list that differs from the stored one
\* in length or in any field of any item, a permutation included, is committed
\* with a later ModifiedAt; a list equal element by element to the stored one
\* of a tab already fetched is not committed.
C24_OrderSensitiveFieldwise ==
    [][ /\ FetchDone =>
          LET t == PollTabID
          IN  /\ Differ(pollItems', Items[t]) =>
                    /\ pollPhase' = "store"
                    /\ Before(ModifiedAt[t], pollNow')
              /\ Permuted(Items[t], pollItems') => pollPhase' = "store"
              /\ (~Differ(pollItems', Items[t]) /\ ~IsZero(ModifiedAt[t])) =>
                    /\ pollPhase' # "store"
                    /\ Items'[t] = Items[t] /\ ModifiedAt'[t] = ModifiedAt[t]
        /\ StoreDone =>
              /\ Items'[PollTabID] = pollItems
              /\ ModifiedAt'[PollTabID] = pollNow
      ]_vars

\* C24 witness: the stored list of Alerts is [A,B], fetched before, and the
\* poller is committing the permutation [B,A].
C24_Witness ==
    /\ pollPhase = "store"
    /\ PollTabID = "Alerts"
    /\ pollFirst = "ModifiedAt"
    /\ Items["Alerts"] = <<ItemA, ItemB>>
    /\ pollItems = <<ItemB, ItemA>>
    /\ Commits("Alerts") = 2

\* C25: when the policy requests a notification for a tab, Notify is invoked
\* with the title of that tab, and at that point the tab's watermark already
\* equals its ModifiedAt; when Notify fails the process terminates.
C25_NotifiesWithTitle ==
    [][ DrawStep =>
          /\ \A t \in TabSet(version) :
                notifs'[t] # notifs[t] =>
                   /\ t \in said'.titles
                   /\ NotificationSentAt'[t] = ModifiedAt[t]
          /\ exit' = "notify failed" =>
                /\ terminated'
                /\ \E t \in TabSet(version) : notifs'[t] # notifs[t]
      ]_vars

\* C26: a commit keeps the tab's source adapter: the step that completes a
\* commit leaves the tab's GetItems as it was registered at start-up, so every
\* tab holds its adapter in every reachable state.
C26_CommitKeepsAdapter ==
    /\ [](\A t \in TabSet(version) : GetItems[t])
    /\ [][StoreDone => GetItems'[PollTabID]]_vars

\* C27: every tab's ModifiedAt starts at zero and never decreases: a commit
\* sets it to a time not before its previous value, and no step sets a
\* non-zero ModifiedAt back to zero.
C27_ModifiedAtMonotonic ==
    /\ \A t \in TabSet(version) : IsZero(ModifiedAt[t])
    /\ [][ \A t \in TabSet(version) :
              /\ ~Before(ModifiedAt'[t], ModifiedAt[t])
              /\ ~IsZero(ModifiedAt[t]) => ~IsZero(ModifiedAt'[t])
         ]_vars

\* C27 witness: a tab has been committed twice and its ModifiedAt is the time
\* of the second commit, after the time of the first.
C27_Witness ==
    \E t \in TabSet(version) :
        /\ Commits(t) = 2
        /\ pollPhase # "store"
        /\ ModifiedAt[t] = Later(Later(StartTime))

\* The keys that switch the tab.
TabKeys == {"Left", "Right", "One", "Two", "Three", "Four"}

\* C28: cursors are per tab: a key that switches the tab leaves the
\* SelectedItem of every tab unchanged, and move-item-up and move-item-down
\* change at most the SelectedItem of the tab selected when the key is read.
C28_CursorsPerTab ==
    [][ /\ (KeyStep /\ lastKey' \in TabKeys) => SelectedItem' = SelectedItem
        /\ (KeyStep /\ lastKey' \in {"Up", "Down"}) =>
              \A t \in TabSet(version) \ {SelectedTabID(version, SelectedTab)} :
                  SelectedItem'[t] = SelectedItem[t]
      ]_vars

\* C28 witness: the cursor of Alerts was moved down to the second item, and
\* after a move to the tab on its left it is still there.
C28_Witness ==
    /\ lastKey = "Left"
    /\ renderPc = "draw"
    /\ SelectedTabID(version, SelectedTab) = "Issues"
    /\ SelectedItem["Alerts"] = 1
    /\ Len(Items["Alerts"]) = 2

\* C29: right after a recognized input event the tab that is then selected is
\* not unread (its LastViewedAt is not before its ModifiedAt), and a tab that
\* is not unread becomes unread only by a step of the poller that stores a
\* new ModifiedAt for it.
C29_SelectedTabRead ==
    [][ /\ (KeyStep /\ Recognized(version, lastKey')) =>
              /\ SelectedTabOK(version, SelectedTab')
              /\ ~Unread(LastViewedAt'[SelectedTabID(version, SelectedTab')],
                         ModifiedAt'[SelectedTabID(version, SelectedTab')])
        /\ \A t \in TabSet(version) :
              (~Unread(LastViewedAt[t], ModifiedAt[t])
                 /\ Unread(LastViewedAt'[t], ModifiedAt'[t]))
              => (PollerStep /\ ModifiedAt'[t] # ModifiedAt[t])
      ]_vars

\* C30: ShouldClose is sticky: no step of the input handling, of the poller or
\* of the notification policy sets it back to false once it is true.
C30_ShouldCloseSticky ==
    [][ShouldClose => ShouldClose']_vars

\* C30 witness: after quit was pressed the frame was completed, the policy
\* having notified, the poller has started another commit, and ShouldClose is
\* still true.
C30_Witness ==
    /\ ShouldClose
    /\ ~terminated
    /\ renderPc = "input"
    /\ pollPhase = "store"
    /\ \E t \in TabSet(version) : notifs[t] > 0

\* Every tab identifier of any version.
AllTabs == {"PRs", "Issues", "Alerts", "Workflows"}

\* The tab has a committed change the policy has not notified: its watermark
\* is not zero and is before its ModifiedAt.
Pending(t) ==
    /\ ~IsZero(NotificationSentAt[t])
    /\ Before(NotificationSentAt[t], ModifiedAt[t])

\* C31: with the render loop scheduled fairly, every state in which a tab's
\* watermark is not zero and before its ModifiedAt is followed, unless the
\* process terminates or ShouldClose is set, by a state in which one more
\* notification has been emitted for the tab and the watermark equals the
\* ModifiedAt the evaluation read.
C31_PendingChangeNotified ==
    \A t \in AllTabs : \A n \in 0..MaxCommits :
        (t \in TabSet(version) /\ Pending(t) /\ notifs[t] = n)
           ~> \/ terminated
              \/ ShouldClose
              \/ /\ t \in TabSet(version)
                 /\ notifs[t] = n + 1
                 /\ NotificationSentAt[t] = ModifiedAt[t]

\* C31 witness: the second commit of Alerts, made while its watermark was at
\* the first, has been notified and the watermark has caught up; the loop goes
\* on.
C31_Witness ==
    /\ Commits("Alerts") = 2
    /\ notifs["Alerts"] >= 1
    /\ ~IsZero(NotificationSentAt["Alerts"])
    /\ NotificationSentAt["Alerts"] = ModifiedAt["Alerts"]
    /\ pollPhase # "store"
    /\ ~terminated /\ ~ShouldClose

====
